---- MODULE Spec2Model ----
(***************************************************************************)
(* Model of recorder.py: one recording session after another (main), each  *)
(* session running three pool tasks (screen capture, key capture, the      *)
(* finish-key listener) joined by record(), followed by the two-pointer    *)
(* merge __to_training_data and the export.                                *)
(*                                                                         *)
(* Time is counted in ticks of 1/TicksPerSecond second: timestamps,         *)
(* discard_tail_sec and key_recording_delay_sec are numbers of ticks, and   *)
(* datetime.now() is a non-decreasing clock read.  A pixel buffer is        *)
(* represented by the index of its frame.                                   *)
(***************************************************************************)
EXTENDS Integers, Sequences, FiniteSets, TLC

\* ------------------------------------------------------------------ bounds
\* of a recorded session
MaxFrames == 3
MaxKeyEvents == 1
MaxTime == 7
MaxSessions == 2
\* resolution of the clock
TicksPerSecond == 2
\* of the sequences handed to __to_training_data on its own
MergeMaxFrames == 3
MergeMaxKeyEvents == 3
MergeMaxTime == 2
MergeMaxTail == 2

\* ------------------------------------------------------- configuration
\* Keys the Recorder of main() records (the default of line 43; the names
\* come from helper.data_format).
RecordedKeys == {"a"}

\* Key codes of the key lists handed to __to_training_data on its own.
MergeKeyCodes == {"a", "d"}

\* Recorder.key_recording_delay_sec: a small negative shift, one tick here.
key_recording_delay_sec == -1

\* Recorder.discard_tail_sec of line 45, in seconds: main() builds every
\* Recorder with this default.
DefaultDiscardTailSec == 3

VARIABLES
    session,           \* number of Recorder objects main() has created so far
    recPc,             \* position of the thread running record()
    error,             \* exception that left record(), "none" if none
    stop_event,        \* threading.Event of the current session
    screenTask,        \* state of the pool task __record_screen
    kbTask,            \* state of the pool task __record_keyboard
    to_hook,           \* keys the loop of line 88 has not hooked yet
    listener,          \* state of the pool task __listen_to_finish_record_event
    hooks,             \* key hooks registered in the keyboard library: <<session, key>>
    held,              \* keys physically held down
    now,               \* last value read from the clock
    screens,           \* list built by __record_screen (screen_sequence of the merge)
    key_sequence,      \* list built by handle_event (also the merge's key_sequence)
    discard_tail_sec,  \* Recorder.discard_tail_sec
    recording_keys,    \* Recorder.recording_keys
    ki, si, cur_keys, data_out, end_timestamp,   \* locals of __to_training_data
    artifacts,         \* what the current session has written under save_dir
    data_dir,          \* whether the directory data/ (save_dir) exists
    folders,           \* names of the folders that exist under save_dir
    avg_fps            \* rate the video was written at, <<dividend, divisor>>

vars == <<session, recPc, error, stop_event, screenTask, kbTask, to_hook, listener,
          hooks, held, now, screens, key_sequence, discard_tail_sec, recording_keys,
          ki, si, cur_keys, data_out, end_timestamp, artifacts, data_dir, folders,
          avg_fps>>

mergeVars == <<ki, si, cur_keys, data_out, end_timestamp>>
taskVars == <<screenTask, kbTask, to_hook, listener>>
configVars == <<discard_tail_sec, recording_keys>>
fsVars == <<data_dir, folders>>

\* ------------------------------------------------------------ data classes
KeyEvent(key_code, timestamp, down) ==
    [key_code |-> key_code, timestamp |-> timestamp, down |-> down]

ScreenEvent(screen, timestamp) ==
    [screen |-> screen, timestamp |-> timestamp]

DatasetItem(screen, key_codes, timestamp) ==
    [screen |-> screen, key_codes |-> key_codes, timestamp |-> timestamp]

\* ------------------------------------------------- __to_training_data
\* Mutant of EndTimestamp: the tail is not subtracted.
EndTimestamp_NoTail(screen_sequence, tail) ==
    screen_sequence[Len(screen_sequence)].timestamp

\* Line 109: the cutoff below which frames are kept.
EndTimestamp(screen_sequence, tail) ==
    screen_sequence[Len(screen_sequence)].timestamp - tail

\* Mutant of KeyEventIsDue: an event stamped like the frame is applied too.
KeyEventIsDue_AtOrBefore(key_event, screen_event) ==
    key_event.timestamp <= screen_event.timestamp

\* Line 113: a pending key event is applied before the frame is looked at.
KeyEventIsDue(key_event, screen_event) ==
    key_event.timestamp < screen_event.timestamp

\* Mutant of PastCutoff: the comparison is turned around.
PastCutoff_Reversed(screen_event, end_ts) ==
    screen_event.timestamp < end_ts

\* Line 120: the frame belongs to the discarded tail.
PastCutoff(screen_event, end_ts) ==
    screen_event.timestamp > end_ts

\* Lines 106-109.  screen_sequence[-1] of an empty list raises IndexError.
MergeStart(screen_sequence, tail) ==
    IF Len(screen_sequence) = 0
    THEN [ki |-> 0, si |-> 0, cur_keys |-> {}, data_out |-> <<>>,
          end_timestamp |-> 0, status |-> "IndexError"]
    ELSE [ki |-> 0, si |-> 0, cur_keys |-> {}, data_out |-> <<>>,
          end_timestamp |-> EndTimestamp(screen_sequence, tail), status |-> "loop"]

\* Lines 114-118: set.add on down, set.remove on up (KeyError when absent).
ApplyKeyEvent(m, key_event) ==
    IF key_event.down
    THEN [m EXCEPT !.cur_keys = @ \cup {key_event.key_code}, !.ki = @ + 1]
    ELSE IF key_event.key_code \in m.cur_keys
         THEN [m EXCEPT !.cur_keys = @ \ {key_event.key_code}, !.ki = @ + 1]
         ELSE [m EXCEPT !.status = "KeyError"]

\* Mutant of EmitOrBreak: the item is built without the frame's timestamp.
EmitOrBreak_DropsTimestamp(m, screen_event) ==
    IF PastCutoff(screen_event, m.end_timestamp)
    THEN [m EXCEPT !.status = "returned"]
    ELSE [m EXCEPT !.data_out = Append(@, DatasetItem(screen_event.screen,
                                                      m.cur_keys, 0)),
                   !.si = @ + 1]

\* Lines 120-127: stop at the cutoff, else emit the frame with a copy of cur_keys.
EmitOrBreak(m, screen_event) ==
    IF PastCutoff(screen_event, m.end_timestamp)
    THEN [m EXCEPT !.status = "returned"]
    ELSE [m EXCEPT !.data_out = Append(@, DatasetItem(screen_event.screen,
                                                      m.cur_keys,
                                                      screen_event.timestamp)),
                   !.si = @ + 1]

\* Mutant of LoopIteration: a pending key event is applied whatever its timestamp.
LoopIteration_DrainsKeys(key_seq, screen_sequence, m) ==
    IF ~(m.si < Len(screen_sequence))
    THEN [m EXCEPT !.status = "returned"]
    ELSE IF m.ki < Len(key_seq)
         THEN ApplyKeyEvent(m, key_seq[m.ki + 1])
         ELSE EmitOrBreak(m, screen_sequence[m.si + 1])

\* Lines 110-128: the loop test and one iteration of the body.  ki and si are
\* the 0-based cursors of the code.
LoopIteration(key_seq, screen_sequence, m) ==
    IF ~(m.si < Len(screen_sequence))
    THEN [m EXCEPT !.status = "returned"]
    ELSE LET has_key == m.ki < Len(key_seq)
             screen_event == screen_sequence[m.si + 1]
         IN  IF has_key /\ KeyEventIsDue(key_seq[m.ki + 1], screen_event)
             THEN ApplyKeyEvent(m, key_seq[m.ki + 1])
             ELSE EmitOrBreak(m, screen_event)

\* Lines 110-128: the loop run to its end (return or exception).
RECURSIVE RunLoop(_, _, _)
RunLoop(key_seq, screen_sequence, m) ==
    IF m.status # "loop"
    THEN m
    ELSE RunLoop(key_seq, screen_sequence, LoopIteration(key_seq, screen_sequence, m))

\* Lines 105-128: __to_training_data as a function of its inputs.
ToTrainingData(key_seq, screen_sequence, tail) ==
    RunLoop(key_seq, screen_sequence, MergeStart(screen_sequence, tail))

MergeLocals ==
    [ki |-> ki, si |-> si, cur_keys |-> cur_keys, data_out |-> data_out,
     end_timestamp |-> end_timestamp, status |-> "loop"]

SetMergeLocals(m) ==
    /\ ki' = m.ki
    /\ si' = m.si
    /\ cur_keys' = m.cur_keys
    /\ data_out' = m.data_out
    /\ end_timestamp' = m.end_timestamp

\* Where record() goes after a merge step, and with which exception.
AfterMerge(status) ==
    CASE status = "loop" -> "merge_loop"
      [] status = "returned" -> "check_empty"
      [] OTHER -> "raised"

ErrorOf(status) ==
    IF status \in {"loop", "returned"} THEN "none" ELSE status

\* ------------------------------------------------------------------- Init
\* Names a folder under save_dir can have.
FolderNames == { t \div TicksPerSecond : t \in 0..MaxTime }

\* Lines 150-155: main() has registered the exit hotkey and waits for the start
\* key.  data/ may be missing, empty, or hold folders from elsewhere: none, or
\* one for every second of the run.
Init ==
    /\ session = 0
    /\ recPc = "wait_start"
    /\ error = "none"
    /\ stop_event = FALSE
    /\ screenTask = "none"
    /\ kbTask = "none"
    /\ to_hook = {}
    /\ listener = "none"
    /\ hooks = {}
    /\ held = {}
    /\ now = 0
    /\ screens = <<>>
    /\ key_sequence = <<>>
    /\ discard_tail_sec = DefaultDiscardTailSec * TicksPerSecond
    /\ recording_keys = RecordedKeys
    /\ ki = 0 /\ si = 0 /\ cur_keys = {} /\ data_out = <<>> /\ end_timestamp = 0
    /\ artifacts = {}
    /\ data_dir \in BOOLEAN
    /\ folders \in (IF data_dir THEN {{}, FolderNames} ELSE {{}})
    /\ avg_fps = <<0, 0>>

\* ------------------------------------------------------------ main, record
\* The process of main() has not ended.
Running == recPc # "exited"

\* Lines 155-159: the start key is pressed; data/ is created when it is missing.
WaitStartKey ==
    /\ recPc = "wait_start"
    /\ recPc' = "idle"
    /\ data_dir' = TRUE
    /\ UNCHANGED <<session, error, stop_event, taskVars, hooks, held, now, screens,
                   key_sequence, configVars, mergeVars, artifacts, folders, avg_fps>>

\* Line 153: the exit hotkey is pressed; terminate() ends the process wherever
\* its threads are.
Terminate ==
    /\ Running
    /\ recPc' = "exited"
    /\ UNCHANGED <<session, error, stop_event, taskVars, hooks, held, now, screens,
                   key_sequence, configVars, mergeVars, artifacts, fsVars, avg_fps>>

\* Lines 161-162: the exception that left record() leaves main(), which has no
\* handler, and the interpreter ends the process.
ProcessExit ==
    /\ recPc = "raised"
    /\ recPc' = "exited"
    /\ UNCHANGED <<session, error, stop_event, taskVars, hooks, held, now, screens,
                   key_sequence, configVars, mergeVars, artifacts, fsVars, avg_fps>>

\* Lines 160-162 and 54-58: a new Recorder, a new Event, the three tasks submitted.
StartSession ==
    /\ recPc \in {"idle", "returned"}
    /\ session < MaxSessions
    /\ session' = session + 1
    /\ recPc' = "wait_listener"
    /\ stop_event' = FALSE
    /\ screenTask' = "running"
    /\ kbTask' = "hooking"
    /\ to_hook' = recording_keys
    /\ listener' = "waiting"
    /\ screens' = <<>>
    /\ key_sequence' = <<>>
    /\ ki' = 0 /\ si' = 0 /\ cur_keys' = {} /\ data_out' = <<>> /\ end_timestamp' = 0
    /\ artifacts' = {}
    /\ avg_fps' = <<0, 0>>
    /\ UNCHANGED <<error, hooks, held, now, configVars, fsVars>>

\* Line 58: pool.submit(listener).result() returns once the listener is done.
JoinListener ==
    /\ recPc = "wait_listener"
    /\ listener = "done"
    /\ recPc' = "wait_screen"
    /\ UNCHANGED <<session, error, stop_event, taskVars, hooks, held, now, screens,
                   key_sequence, configVars, mergeVars, artifacts, fsVars,
                   avg_fps>>

\* Line 60: screen_future.result() hands over the list of frames.
JoinScreen ==
    /\ recPc = "wait_screen"
    /\ screenTask = "returned"
    /\ recPc' = "wait_keyboard"
    /\ UNCHANGED <<session, error, stop_event, taskVars, hooks, held, now, screens,
                   key_sequence, configVars, mergeVars, artifacts, fsVars,
                   avg_fps>>

\* Line 60: screen_future.result() re-raises the task's exception inside the
\* with block.
JoinScreenFailed ==
    /\ recPc = "wait_screen"
    /\ screenTask = "failed"
    /\ recPc' = "pool_exit_raise"
    /\ error' = "BackendFailure"
    /\ UNCHANGED <<session, stop_event, taskVars, hooks, held, now, screens,
                   key_sequence, configVars, mergeVars, artifacts, fsVars,
                   avg_fps>>

\* Mutant of JoinKeyboard: record() goes on without waiting for the key task.
JoinKeyboard_NoWait ==
    /\ recPc = "wait_keyboard"
    /\ kbTask # "failed"
    /\ recPc' = "merge_begin"
    /\ UNCHANGED <<session, error, stop_event, taskVars, hooks, held, now, screens,
                   key_sequence, configVars, mergeVars, artifacts, fsVars,
                   avg_fps>>

\* Lines 61 and 55: keyboard_future.result() hands over key_sequence; the with
\* block ends (all three tasks are done, shutdown returns at once).
JoinKeyboard ==
    /\ recPc = "wait_keyboard"
    /\ kbTask = "returned"
    /\ recPc' = "merge_begin"
    /\ UNCHANGED <<session, error, stop_event, taskVars, hooks, held, now, screens,
                   key_sequence, configVars, mergeVars, artifacts, fsVars,
                   avg_fps>>

\* Line 61: keyboard_future.result() re-raises the task's exception.
JoinKeyboardFailed ==
    /\ recPc = "wait_keyboard"
    /\ kbTask = "failed"
    /\ recPc' = "pool_exit_raise"
    /\ error' = "BackendFailure"
    /\ UNCHANGED <<session, stop_event, taskVars, hooks, held, now, screens,
                   key_sequence, configVars, mergeVars, artifacts, fsVars,
                   avg_fps>>

TaskDone(t) == t \in {"returned", "failed", "done"}

\* Line 55: leaving the with block on an exception runs shutdown(wait=True),
\* which waits for every submitted task, then the exception leaves record().
PoolExitRaise ==
    /\ recPc = "pool_exit_raise"
    /\ TaskDone(screenTask) /\ TaskDone(kbTask) /\ TaskDone(listener)
    /\ recPc' = "raised"
    /\ UNCHANGED <<session, error, stop_event, taskVars, hooks, held, now, screens,
                   key_sequence, configVars, mergeVars, artifacts, fsVars,
                   avg_fps>>

\* ------------------------------------------- __listen_to_finish_record_event
\* Line 77: keyboard.wait(finish_record_key) returns when the finish key is pressed.
FinishTrigger ==
    /\ Running
    /\ listener = "waiting"
    /\ listener' = "triggered"
    /\ UNCHANGED <<session, recPc, error, stop_event, screenTask, kbTask, to_hook,
                   hooks, held, now, screens, key_sequence, configVars,
                   mergeVars, artifacts, fsVars,
                   avg_fps>>

\* Mutant of ListenerSet: the event is set without waiting for the finish key.
ListenerSet_WithoutWait ==
    /\ Running
    /\ listener \in {"waiting", "triggered"}
    /\ stop_event' = TRUE
    /\ listener' = "done"
    /\ UNCHANGED <<session, recPc, error, screenTask, kbTask, to_hook,
                   hooks, held, now, screens, key_sequence, configVars,
                   mergeVars, artifacts, fsVars,
                   avg_fps>>

\* Line 78: stop_event.set().
ListenerSet ==
    /\ Running
    /\ listener = "triggered"
    /\ stop_event' = TRUE
    /\ listener' = "done"
    /\ UNCHANGED <<session, recPc, error, screenTask, kbTask, to_hook,
                   hooks, held, now, screens, key_sequence, configVars,
                   mergeVars, artifacts, fsVars,
                   avg_fps>>

\* ----------------------------------------------------------- __record_screen
\* Lines 101-102: the stream yields one more image while the event is unset;
\* the frame is stamped with the clock read at that moment.
ScreenPull ==
    /\ Running
    /\ screenTask = "running"
    /\ ~stop_event
    /\ Len(screens) < MaxFrames
    /\ \E t \in now..MaxTime :
          /\ now' = t
          /\ screens' = Append(screens, ScreenEvent(Len(screens) + 1, t))
    /\ UNCHANGED <<session, recPc, error, stop_event, taskVars, hooks, held,
                   key_sequence, configVars, mergeVars, artifacts, fsVars,
                   avg_fps>>

\* Lines 101-103: the stream ends once the event is set; the task returns screens.
ScreenReturn ==
    /\ Running
    /\ screenTask = "running"
    /\ stop_event
    /\ screenTask' = "returned"
    /\ UNCHANGED <<session, recPc, error, stop_event, kbTask, to_hook, listener,
                   hooks, held, now, screens, key_sequence, configVars,
                   mergeVars, artifacts, fsVars,
                   avg_fps>>

\* Line 101: the capture backend raises inside the stream.
ScreenFail ==
    /\ Running
    /\ screenTask = "running"
    /\ screenTask' = "failed"
    /\ UNCHANGED <<session, recPc, error, stop_event, kbTask, to_hook, listener,
                   hooks, held, now, screens, key_sequence, configVars,
                   mergeVars, artifacts, fsVars,
                   avg_fps>>

\* --------------------------------------------------------- __record_keyboard
\* Lines 88-89: one turn of the loop registers handle_event for one key.
HookKey ==
    /\ Running
    /\ kbTask = "hooking"
    /\ \E key \in to_hook :
          /\ hooks' = hooks \cup {<<session, key>>}
          /\ to_hook' = to_hook \ {key}
          /\ kbTask' = IF to_hook' = {} THEN "waiting" ELSE "hooking"
    /\ UNCHANGED <<session, recPc, error, stop_event, screenTask, listener,
                   held, now, screens, key_sequence, configVars,
                   mergeVars, artifacts, fsVars,
                   avg_fps>>

\* Line 89: keyboard.hook_key raises; the hooks registered so far stay.
HookKeyFail ==
    /\ Running
    /\ kbTask = "hooking"
    /\ kbTask' = "failed"
    /\ UNCHANGED <<session, recPc, error, stop_event, screenTask, to_hook, listener,
                   hooks, held, now, screens, key_sequence, configVars,
                   mergeVars, artifacts, fsVars,
                   avg_fps>>

\* Mutant of KeyboardReturn: the task waits for the event to be clear.
KeyboardReturn_WaitsForClear ==
    /\ Running
    /\ kbTask = "waiting"
    /\ ~stop_event
    /\ kbTask' = "returned"
    /\ UNCHANGED <<session, recPc, error, stop_event, screenTask, to_hook, listener,
                   hooks, held, now, screens, key_sequence, configVars,
                   mergeVars, artifacts, fsVars,
                   avg_fps>>

\* Lines 91-92: stop_event.wait() returns, the task returns key_sequence.
\* Nothing is unhooked.
KeyboardReturn ==
    /\ Running
    /\ kbTask = "waiting"
    /\ stop_event
    /\ kbTask' = "returned"
    /\ UNCHANGED <<session, recPc, error, stop_event, screenTask, to_hook, listener,
                   hooks, held, now, screens, key_sequence, configVars,
                   mergeVars, artifacts, fsVars,
                   avg_fps>>

\* Lines 83-86: handle_event appends to the key_sequence of its closure.
HandleEvent(seq, name, event_type, t) ==
    Append(seq, KeyEvent(name, t + key_recording_delay_sec, event_type = "down"))

\* Lines 88-89: the hook of the current session calls handle_event for as long
\* as the process runs, wherever record() is and after an exception has left
\* it: nothing unhooks it.  (The hooks of earlier sessions append to the lists
\* of their own closures, which nothing refers to any more.)
Delivers(key) ==
    /\ <<session, key>> \in hooks
    /\ Running

\* A key goes down (or auto-repeats); every hook registered for it is called.
KeyDown ==
    \E key \in recording_keys :
       /\ Running
       /\ held' = held \cup {key}
       /\ IF Delivers(key)
          THEN /\ Len(key_sequence) < MaxKeyEvents
               /\ \E t \in now..MaxTime :
                     /\ now' = t
                     /\ key_sequence' = HandleEvent(key_sequence, key, "down", t)
          ELSE UNCHANGED <<now, key_sequence>>
       /\ UNCHANGED <<session, recPc, error, stop_event, taskVars, hooks, screens,
                      configVars, mergeVars, artifacts, fsVars,
                   avg_fps>>

\* A held key is released; every hook registered for it is called.
KeyUp ==
    \E key \in held :
       /\ Running
       /\ held' = held \ {key}
       /\ IF Delivers(key)
          THEN /\ Len(key_sequence) < MaxKeyEvents
               /\ \E t \in now..MaxTime :
                     /\ now' = t
                     /\ key_sequence' = HandleEvent(key_sequence, key, "up", t)
          ELSE UNCHANGED <<now, key_sequence>>
       /\ UNCHANGED <<session, recPc, error, stop_event, taskVars, hooks, screens,
                      configVars, mergeVars, artifacts, fsVars,
                   avg_fps>>

\* ------------------------------------------------------ record(), line 63 on
\* Lines 63, 106-109: the call of __to_training_data up to the loop.
MergeBegin ==
    /\ recPc = "merge_begin"
    /\ LET m == MergeStart(screens, discard_tail_sec)
       IN  /\ SetMergeLocals(m)
           /\ recPc' = AfterMerge(m.status)
           /\ error' = ErrorOf(m.status)
    /\ UNCHANGED <<session, stop_event, taskVars, hooks, held, now, screens,
                   key_sequence, configVars, artifacts, fsVars,
                   avg_fps>>

\* Lines 110-128: the loop test and one iteration; leaving the loop returns data_out.
MergeLoop ==
    /\ recPc = "merge_loop"
    /\ LET m == LoopIteration(key_sequence, screens, MergeLocals)
       IN  /\ SetMergeLocals(m)
           /\ recPc' = AfterMerge(m.status)
           /\ error' = ErrorOf(m.status)
    /\ UNCHANGED <<session, stop_event, taskVars, hooks, held, now, screens,
                   key_sequence, configVars, artifacts, fsVars,
                   avg_fps>>

\* Lines 65-67: an empty dataset is skipped.
SkipEmpty ==
    /\ recPc = "check_empty"
    /\ Len(data_out) = 0
    /\ recPc' = "returned"
    /\ UNCHANGED <<session, error, stop_event, taskVars, hooks, held, now, screens,
                   key_sequence, configVars, mergeVars, artifacts, fsVars,
                   avg_fps>>

\* Line 69: strftime('%Y%m%d-%H%M%S') keeps the date and time to the second:
\* the clock reads of one second give one name.
FolderName(t) == t \div TicksPerSecond

\* Line 70: os.mkdir raises FileExistsError when the name is taken.
Mkdir(folder_name) ==
    IF folder_name \in folders
    THEN /\ recPc' = "raised"
         /\ error' = "FileExistsError"
         /\ UNCHANGED <<artifacts, folders>>
    ELSE /\ folders' = folders \cup {folder_name}
         /\ artifacts' = artifacts \cup {"folder"}
         /\ recPc' = "save_np_keys"
         /\ UNCHANGED error

\* Mutant of MakeFolder: the folder is created without the emptiness test.
MakeFolder_Always ==
    /\ recPc = "check_empty"
    /\ \E t \in now..MaxTime :
          /\ now' = t
          /\ Mkdir(FolderName(t))
    /\ UNCHANGED <<session, stop_event, taskVars, hooks, held, screens,
                   key_sequence, configVars, mergeVars, data_dir, avg_fps>>

\* Lines 65, 69-70: the folder is named after the clock read at line 69 and
\* created.
MakeFolder ==
    /\ recPc = "check_empty"
    /\ Len(data_out) # 0
    /\ \E t \in now..MaxTime :
          /\ now' = t
          /\ Mkdir(FolderName(t))
    /\ UNCHANGED <<session, stop_event, taskVars, hooks, held, screens,
                   key_sequence, configVars, mergeVars, data_dir, avg_fps>>

\* Lines 71, 134-136.
SaveNpKeys ==
    /\ recPc = "save_np_keys"
    /\ artifacts' = artifacts \cup {"np_keys"}
    /\ recPc' = "save_np_screens"
    /\ UNCHANGED <<session, error, stop_event, taskVars, hooks, held, now, screens,
                   key_sequence, configVars, mergeVars, fsVars, avg_fps>>

\* Lines 72, 130-132.
SaveNpScreens ==
    /\ recPc = "save_np_screens"
    /\ artifacts' = artifacts \cup {"np_screens"}
    /\ recPc' = "save_avi_video"
    /\ UNCHANGED <<session, error, stop_event, taskVars, hooks, held, now, screens,
                   key_sequence, configVars, mergeVars, fsVars, avg_fps>>

\* Line 139: the rate in frames per second as the pair <<dividend, divisor>> of
\* the division, the timestamps being in ticks.
AvgFps(dataset) ==
    <<Len(dataset) * TicksPerSecond,
      dataset[Len(dataset)].timestamp - dataset[1].timestamp>>

\* Lines 73-74, 138-146: the video is written at avg_fps; a zero divisor raises
\* ZeroDivisionError at line 139, before the writer is created.
SaveAviVideo ==
    /\ recPc = "save_avi_video"
    /\ IF AvgFps(data_out)[2] = 0
       THEN /\ recPc' = "raised"
            /\ error' = "ZeroDivisionError"
            /\ UNCHANGED <<artifacts, fsVars,
                   avg_fps>>
       ELSE /\ avg_fps' = AvgFps(data_out)
            /\ artifacts' = artifacts \cup {"avi_video"}
            /\ recPc' = "returned"
            /\ UNCHANGED error
    /\ UNCHANGED <<session, stop_event, taskVars, hooks, held, now, screens,
                   key_sequence, configVars, mergeVars, fsVars>>

\* ------------------------------------------------------------ specification
Next ==
    \/ WaitStartKey \/ Terminate \/ ProcessExit
    \/ StartSession
    \/ JoinListener \/ JoinScreen \/ JoinScreenFailed
    \/ JoinKeyboard \/ JoinKeyboardFailed \/ PoolExitRaise
    \/ FinishTrigger \/ ListenerSet
    \/ ScreenPull \/ ScreenReturn \/ ScreenFail
    \/ HookKey \/ HookKeyFail \/ KeyboardReturn
    \/ KeyDown \/ KeyUp
    \/ MergeBegin \/ MergeLoop
    \/ SkipEmpty \/ MakeFolder \/ SaveNpKeys \/ SaveNpScreens \/ SaveAviVideo

Spec == Init /\ [][Next]_vars

\* Steps of the thread that runs main() and record().
RecordStep ==
    \/ ProcessExit
    \/ StartSession
    \/ JoinListener \/ JoinScreen \/ JoinScreenFailed
    \/ JoinKeyboard \/ JoinKeyboardFailed \/ PoolExitRaise
    \/ MergeBegin \/ MergeLoop
    \/ SkipEmpty \/ MakeFolder \/ SaveNpKeys \/ SaveNpScreens \/ SaveAviVideo

\* Every thread of the process that can take a step eventually takes one.  The
\* start key, the finish key, the exit hotkey, the other keys, the arrival of
\* frames and the backend errors are up to the outside world and get no
\* fairness.
Fairness ==
    /\ WF_vars(RecordStep)
    /\ WF_vars(ListenerSet)
    /\ WF_vars(ScreenReturn)
    /\ WF_vars(HookKey)
    /\ WF_vars(KeyboardReturn)

FairSpec == Spec /\ Fairness

\* ------------------------------------- __to_training_data on its own inputs
NonDecreasing(seq) ==
    \A i \in 1..(Len(seq) - 1) : seq[i].timestamp <= seq[i + 1].timestamp

\* Frame lists as __record_screen builds them: appended in clock order.
FrameSequences ==
    UNION { { [i \in 1..n |-> ScreenEvent(i, f[i])] :
                f \in { g \in [1..n -> 0..MergeMaxTime] :
                          \A i \in 1..(n - 1) : g[i] <= g[i + 1] } } :
            n \in 0..MergeMaxFrames }

KeyEvents ==
    { KeyEvent(key, t, down) :
        key \in MergeKeyCodes, t \in 0..MergeMaxTime, down \in BOOLEAN }

\* Key lists as handle_event builds them: appended in clock order, an "up"
\* possibly without its "down" (the key was held when the hook was registered).
KeySequences ==
    UNION { { seq \in [1..n -> KeyEvents] : NonDecreasing(seq) } :
            n \in 0..MergeMaxKeyEvents }

\* __to_training_data called on two lists of its caller's: no task runs and
\* no hook holds the key list, so nothing appends to it during the call.
InitMerge ==
    /\ session = 0
    /\ recPc = "merge_begin"
    /\ error = "none"
    /\ stop_event = FALSE
    /\ screenTask = "none"
    /\ kbTask = "none"
    /\ to_hook = {}
    /\ listener = "none"
    /\ hooks = {}
    /\ held = {}
    /\ now = 0
    /\ screens \in FrameSequences
    /\ key_sequence \in KeySequences
    /\ discard_tail_sec \in 0..MergeMaxTail
    /\ recording_keys = MergeKeyCodes
    /\ ki = 0 /\ si = 0 /\ cur_keys = {} /\ data_out = <<>> /\ end_timestamp = 0
    /\ artifacts = {}
    /\ data_dir = TRUE
    /\ folders = {}
    /\ avg_fps = <<0, 0>>

MergeNext == MergeBegin \/ MergeLoop

MergeSpec == InitMerge /\ [][MergeNext]_vars

\* ------------------------------------------------------------------ claims
\* The active key set obtained by replaying events in order: add on down,
\* remove on up.
RECURSIVE Replay(_)
Replay(events) ==
    IF events = <<>>
    THEN {}
    ELSE LET before == Replay(SubSeq(events, 1, Len(events) - 1))
             e == events[Len(events)]
         IN  IF e.down THEN before \cup {e.key_code} ELSE before \ {e.key_code}

\* The events of key_sequence stamped strictly before t, in arrival order.
EventsBefore(t) ==
    LET Earlier(e) == e.timestamp < t
    IN  SelectSeq(key_sequence, Earlier)

\* Each "up" is preceded by a "down" of the same key.
UpsMatched(seq) ==
    \A j \in 1..Len(seq) :
        ~seq[j].down =>
            \E i \in 1..(j - 1) : seq[i].down /\ seq[i].key_code = seq[j].key_code

\* __to_training_data has returned data_out to record().
MergeReturned == recPc = "check_empty"

\* C1: for a non-empty frame list and a key list, both in timestamp order, with
\* every "up" preceded by a "down" of its key, each returned item carries exactly
\* the key set replayed from all events stamped strictly before the item's frame.
C1_KeyCodesAreReplayOfEarlierEvents ==
    ( /\ MergeReturned
      /\ Len(screens) > 0
      /\ NonDecreasing(screens)
      /\ NonDecreasing(key_sequence)
      /\ UpsMatched(key_sequence) )
    => \A i \in 1..Len(data_out) :
          data_out[i].key_codes = Replay(EventsBefore(data_out[i].timestamp))

\* C1 witness: three frames kept, a key down before the second frame and still
\* down at the third, its release stamped at or after the last frame.
C1_Witness ==
    /\ MergeReturned
    /\ UpsMatched(key_sequence)
    /\ Len(data_out) = 3
    /\ data_out[1].key_codes = {}
    /\ data_out[2].key_codes = {"a"}
    /\ data_out[3].key_codes = {"a"}
    /\ \E j \in 1..Len(key_sequence) :
          /\ ~key_sequence[j].down
          /\ key_sequence[j].timestamp >= data_out[3].timestamp

\* The cutoff of the tail discard, from the inputs.
Cutoff == screens[Len(screens)].timestamp - discard_tail_sec

\* C2: every emitted item is a frame stamped at or before (last frame timestamp
\* - discard_tail_sec), and there are at most as many items as such frames.
C2_ItemsAreAtOrBeforeCutoff ==
    MergeReturned =>
        /\ \A i \in 1..Len(data_out) :
              /\ data_out[i].timestamp <= Cutoff
              /\ \E j \in 1..Len(screens) :
                    /\ screens[j].screen = data_out[i].screen
                    /\ screens[j].timestamp = data_out[i].timestamp
        /\ Len(data_out) <=
              Cardinality({ j \in 1..Len(screens) : screens[j].timestamp <= Cutoff })

\* C2 witness: a positive tail, some frames kept and some discarded.
C2_Witness ==
    /\ MergeReturned
    /\ discard_tail_sec > 0
    /\ Len(data_out) >= 1
    /\ Len(data_out) < Len(screens)

\* The merge has been entered in the current session.
MergeEntered ==
    \/ recPc \in {"merge_loop", "check_empty", "save_np_keys", "save_np_screens",
                  "save_avi_video", "returned"}
    \/ recPc = "raised" /\ error # "BackendFailure"

\* C3: with an empty frame list the merge returns an empty dataset without
\* failing, and record() skips the export.
C3_EmptyFramesGiveEmptySession ==
    (session > 0 /\ MergeEntered /\ Len(screens) = 0) =>
        /\ error = "none"
        /\ data_out = <<>>
        /\ artifacts = {}
        /\ recPc \in {"check_empty", "returned"}

\* C4: an "up" of a key that is not in the active set does not end the merge
\* with an error; the returned key sets are those of the replay that ignores it.
C4_UnmatchedUpIsIgnored ==
    /\ error # "KeyError"
    /\ (MergeReturned /\ NonDecreasing(screens) /\ NonDecreasing(key_sequence)) =>
          \A i \in 1..Len(data_out) :
              data_out[i].key_codes = Replay(EventsBefore(data_out[i].timestamp))

ProducerFailed == screenTask = "failed" \/ kbTask = "failed"

\* C5: when a producer task fails, the failure itself gets the event set and
\* record() raises, whether or not the finish key is ever pressed (unless the
\* exit hotkey ends the process first).
C5_FailureStopsSessionWithoutFinishKey ==
    (ProducerFailed /\ Running) ~> ((stop_event /\ recPc = "raised") \/ ~Running)

\* record() is at or past the call of __to_training_data.
AtOrPastMerge ==
    recPc \in {"merge_begin", "merge_loop", "check_empty", "save_np_keys",
               "save_np_screens", "save_avi_video"}

\* C6: the merge and the export run only after both producer tasks have seen
\* the event set and returned their lists.
C6_MergeOnlyAfterBothProducersReturned ==
    (AtOrPastMerge \/ artifacts # {}) =>
        /\ stop_event
        /\ screenTask = "returned"
        /\ kbTask = "returned"
        /\ listener = "done"

\* C6 witness: the merge is under way and has emitted an item.
C6_Witness ==
    /\ recPc = "merge_loop"
    /\ Len(data_out) >= 1
    /\ Len(key_sequence) >= 1

\* C7: once the key task has returned its list, the list the merge reads is not
\* appended to any more.
C7_KeySequenceFrozenDuringMerge ==
    [][(kbTask = "returned" /\ recPc \in {"merge_begin", "merge_loop"})
          => key_sequence' = key_sequence]_vars

\* C8: a session's hooks are gone when its record() returns, so every
\* registered hook belongs to the session that is running.  (When record()
\* raises, main() ends and the process takes its hooks with it.)
C8_HooksUnregisteredOnExit ==
    /\ \A h \in hooks : h[1] = session
    /\ recPc = "returned" => hooks = {}

\* C9: the event of a session starts unset, is set only by the listener after
\* the finish key, by no producer task, and stays set until the next session
\* makes its own event.
C9_StopEventWriteOnce ==
    /\ ~stop_event
    /\ [][ /\ (session' # session) => ~stop_event'
           /\ (~stop_event /\ stop_event') =>
                 /\ listener = "triggered" /\ listener' = "done"
                 /\ screenTask' = screenTask /\ kbTask' = kbTask
                 /\ session' = session
           /\ (stop_event /\ session' = session) => stop_event' ]_vars

\* C9 witness: the event is set and both producers have returned on it.
C9_Witness ==
    /\ stop_event
    /\ listener = "done"
    /\ screenTask = "returned"
    /\ kbTask = "returned"

\* record() is inside the with block, waiting for its tasks.
Joining == recPc \in {"wait_listener", "wait_screen", "wait_keyboard"}

\* C10: once the event is set both producer tasks end, and record() goes on to
\* the merge when both have returned their lists (a producer that failed makes
\* record() raise instead), unless the exit hotkey ends the process first.
C10_ProducersEndAfterStop ==
    (stop_event /\ Joining) ~>
        \/ ~Running
        \/ /\ TaskDone(screenTask)
           /\ TaskDone(kbTask)
           /\ AtOrPastMerge \/ ProducerFailed

\* C10 witness: the event was set while both producers were at work, and
\* record() has reached the merge.
C10_Witness ==
    /\ stop_event
    /\ recPc = "merge_begin"
    /\ Len(screens) >= 1
    /\ Len(key_sequence) >= 1

\* Last frame timestamp minus first frame timestamp.
SessionLength == screens[Len(screens)].timestamp - screens[1].timestamp

FramesInOrder == Len(screens) > 0 /\ NonDecreasing(screens)

\* C11 as stated: with frames in timestamp order, a discard_tail_sec greater
\* than or equal to the session length makes the merge return an empty dataset.
C11_TailAtLeastSessionLengthGivesEmpty ==
    (MergeReturned /\ FramesInOrder /\ discard_tail_sec >= SessionLength)
        => data_out = <<>>

\* C11 as amended: with frames in timestamp order, a discard_tail_sec strictly
\* greater than the session length makes the merge emit no item at all, so the
\* dataset it returns is empty.
C11_TailAboveSessionLengthGivesEmpty ==
    (MergeEntered /\ FramesInOrder /\ discard_tail_sec > SessionLength)
        => data_out = <<>>

\* C11 witness: several frames spread over time, key events before them, a
\* longer tail, and the merge has returned nothing.
C11_Witness ==
    /\ MergeReturned
    /\ Len(screens) >= 2
    /\ SessionLength >= 1
    /\ discard_tail_sec > SessionLength
    /\ ki >= 1
    /\ data_out = <<>>

\* C12: with discard_tail_sec = 0, frames and key events in timestamp order and
\* every "up" following a "down" of its key, the merge does not fail and returns
\* one item per frame, the last frame included.
C12_ZeroTailKeepsEveryFrame ==
    ( /\ MergeEntered
      /\ discard_tail_sec = 0
      /\ FramesInOrder
      /\ NonDecreasing(key_sequence)
      /\ UpsMatched(key_sequence) )
    => /\ error = "none"
       /\ MergeReturned =>
             /\ Len(data_out) = Len(screens)
             /\ \A i \in 1..Len(screens) :
                   /\ data_out[i].screen = screens[i].screen
                   /\ data_out[i].timestamp = screens[i].timestamp

\* C13: the video is written at (count - 1) / (timestamp of the last item -
\* timestamp of the first item), count being the number of returned items.
C13_AvgFpsIsIntervalsOverDuration ==
    "avi_video" \in artifacts =>
        avg_fps[1] * (data_out[Len(data_out)].timestamp - data_out[1].timestamp)
            = (Len(data_out) - 1) * TicksPerSecond * avg_fps[2]

\* C14: with fewer than two returned items the rate computation does not end
\* record() with a division by zero.
C14_DegenerateRateIsGuarded ==
    Len(data_out) < 2 => error # "ZeroDivisionError"

\* record() is at or past the test of line 65.
PastMerge ==
    recPc \in {"check_empty", "save_np_keys", "save_np_screens", "save_avi_video",
               "returned"}

\* C15: when the merge has returned no item, record() writes nothing (no
\* folder, no array, no video) and returns without an exception.
C15_EmptyDatasetSkipsExport ==
    (session > 0 /\ PastMerge /\ data_out = <<>>) =>
        /\ artifacts = {}
        /\ error = "none"
        /\ recPc \in {"check_empty", "returned"}

\* C15 witness: frames were recorded, the merge kept none, record() has returned.
C15_Witness ==
    /\ recPc = "returned"
    /\ Len(screens) >= 2
    /\ data_out = <<>>
    /\ artifacts = {}

\* record() has ended with an exception raised by the merge or the export.
MergeOrExportFailed ==
    /\ recPc = "raised"
    /\ error \in {"IndexError", "KeyError", "FileExistsError", "ZeroDivisionError"}

\* C16: whenever a session has ended, discarded (record() returned) or failed
\* in the merge or the export, main() can start the next one (as long as the
\* session bound allows).
C16_LoopGoesOnAfterSessionEnd ==
    ((recPc = "returned" \/ MergeOrExportFailed) /\ session < MaxSessions)
        => ENABLED StartSession

\* The merge has ended, by return or by exception.
MergeEnded ==
    \/ MergeReturned
    \/ recPc = "raised" /\ error \in {"IndexError", "KeyError"}

\* The first n key events followed only by events stamped at or after t.
OnlyLateAfter(n, t) ==
    \A j \in (n + 1)..Len(key_sequence) : key_sequence[j].timestamp >= t

\* The merge of the first n key events ends as the merge of all of them did:
\* same exception or none, and the same dataset when it returns.
SameOutcomeWithFirst(n) ==
    LET m == ToTrainingData(SubSeq(key_sequence, 1, n), screens, discard_tail_sec)
    IN  /\ ErrorOf(m.status) = error
        /\ MergeReturned => m.data_out = data_out

\* C17: key events stamped at or after the last frame's timestamp, at the end
\* of the key list, have no effect: the merge ends as it does without them,
\* with the same dataset and without a failure of their making.
C17_EventsAfterLastFrameHaveNoEffect ==
    (MergeEnded /\ FramesInOrder) =>
        \A n \in 0..Len(key_sequence) :
            OnlyLateAfter(n, screens[Len(screens)].timestamp) => SameOutcomeWithFirst(n)

\* C17 witness: the list ends with an "up" of a key that is not down, stamped
\* at the last frame's timestamp, after an event that was consumed; the merge
\* has returned every frame.
C17_Witness ==
    /\ MergeReturned
    /\ Len(screens) >= 2
    /\ Len(key_sequence) = 2
    /\ ki = 1
    /\ ~key_sequence[2].down
    /\ key_sequence[2].key_code \notin cur_keys
    /\ key_sequence[2].timestamp = screens[Len(screens)].timestamp
    /\ Len(data_out) = Len(screens)

\* One pass of the loop body (the loop test of line 110 has succeeded).
LoopBodyRuns == recPc = "merge_loop" /\ si < Len(screens)

\* C18: every iteration advances the key cursor, advances the frame cursor or
\* stops at the cutoff; no cursor decreases or passes the end of its list; and
\* when the loop has ended each unconsumed key event is stamped at or after
\* every retained frame.
C18_EachIterationAdvancesOrStopsAtCutoff ==
    [][ /\ ki <= ki' /\ ki' <= Len(key_sequence)
        /\ si <= si' /\ si' <= Len(screens)
        /\ LoopBodyRuns =>
             \/ ki' = ki + 1 /\ si' = si
             \/ si' = si + 1 /\ ki' = ki
             \/ /\ ki' = ki /\ si' = si
                /\ recPc' = "check_empty"
                /\ PastCutoff(screens[si + 1], end_timestamp)
        /\ MergeEnded' =>
             \A j \in (ki' + 1)..Len(key_sequence) : \A i \in 1..Len(data_out') :
                 key_sequence[j].timestamp >= data_out'[i].timestamp ]_vars

\* The frames at or before the cutoff.
RetainedFrames == { j \in 1..Len(screens) : screens[j].timestamp <= Cutoff }

\* C19: the outcome of the merge depends only on the key events stamped
\* before some retained frame: without the events at the end of the list that
\* are stamped at or after the last retained frame, the merge ends the same
\* way, with the same dataset.
C19_OutcomeDependsOnlyOnEventsBeforeRetainedFrames ==
    (MergeEnded /\ FramesInOrder /\ RetainedFrames # {}) =>
        \A n \in 0..Len(key_sequence) :
            OnlyLateAfter(n, screens[Cardinality(RetainedFrames)].timestamp)
                => SameOutcomeWithFirst(n)

\* C20: for frames in timestamp order a returned dataset is exactly the frames
\* at or before the cutoff, in order: item i carries the screen and the
\* timestamp of frame i, none skipped or repeated, timestamps non-decreasing.
C20_OutputIsPrefixOfFramesUpToCutoff ==
    (MergeReturned /\ FramesInOrder) =>
        /\ Len(data_out) = Cardinality(RetainedFrames)
        /\ \A j \in RetainedFrames : j <= Len(data_out)
        /\ \A i \in 1..Len(data_out) :
              /\ data_out[i].screen = screens[i].screen
              /\ data_out[i].timestamp = screens[i].timestamp
        /\ NonDecreasing(data_out)

\* C20 witness: three frames, key events consumed, the first frames kept and
\* the tail discarded.
C20_Witness ==
    /\ MergeReturned
    /\ Len(screens) = 3
    /\ ki >= 1
    /\ Len(data_out) = 2
    /\ data_out[2].timestamp >= 1
    /\ screens[3].timestamp > Cutoff
====
